---- MODULE Spec2Model ----
(***************************************************************************)
(* A model of bfformatter.py: the class BFFormatter, its constructor and   *)
(* its method format, which lays a token stream out over the dark (or,     *)
(* inverted, the light) cells of a resized image.                          *)
(*                                                                         *)
(* Strings are sequences of one-character strings.  An optional value is   *)
(* a sequence of length 0 (None) or 1.  Real numbers are kept exact: a     *)
(* whitespace fraction is a pair <<p, q>> standing for p/q, a luminance is *)
(* the integer 10000 * 255 * Y.  The fractions that reach the arithmetic   *)
(* and the pixels of the palette are values on which the program's         *)
(* floating point arithmetic is exact too.                                 *)
(***************************************************************************)
EXTENDS Integers, Sequences, FiniteSets

VARIABLES
    raw,            \* the text the constructor had before the strip step
    strip_comments, \* the constructor's strip_comments argument
    bf_string,      \* self.bf_string
    pc,             \* "unbuilt" (the constructor raised) | "idle" | "open" |
                    \* "scan" | "returned" | "raised"
    err,            \* the exception a raised call ended with, "" otherwise
    image_file,     \* format's image_file argument: the image the file holds
    invert,         \* format's invert argument
    ws_fraction,    \* format's ws_fraction argument
    sink,           \* the content of the file output_file names
    n, width, height, Y, output_str, c, x, y,   \* format's locals
    mask,           \* for each character of output_str: written by line 68
    result,         \* the value format returned
    kept            \* an earlier call's arguments and result, kept by the caller

vars == <<raw, strip_comments, bf_string, pc, err, image_file, invert,
          ws_fraction, sink, n, width, height, Y, output_str, c, x, y, mask,
          result, kept>>

locals == <<n, width, height, Y, output_str, c, x, y, mask>>
params == <<image_file, invert, ws_fraction>>

----------------------------------------------------------------------------
(* Bounds of the model *)

MaxLen == 3
MaxCells == 8
MaxRepeatLen == 2

----------------------------------------------------------------------------
(* Inputs *)

None == <<>>
Some(v) == <<v>>

RECURSIVE SeqsUpTo(_, _)
SeqsUpTo(S, k) ==
    IF k = 0 THEN {<<>>}
    ELSE LET shorter == SeqsUpTo(S, k - 1)
         IN  shorter \cup {Append(s, ch) : s \in shorter, ch \in S}

\* A command, the character the pattern of line 30 repeats, a comment
\* character and a line break.
Alphabet == {"+", "^", "a", "\n"}
Texts == SeqsUpTo(Alphabet, MaxLen)

Black == <<0, 0, 0>>
Mid == <<78, 146, 90>>
White == <<255, 255, 255>>
Palette == {Black, Mid, White}

\* width and height of the image files: a square, a wide and a tall image
Sizes == {<<1, 1>>, <<2, 1>>, <<1, 2>>}

RGBImages ==
    UNION {{[w |-> wh[1], h |-> wh[2], readable |-> TRUE, px |-> p] :
              p \in [1..(wh[1] * wh[2]) -> Palette]} : wh \in Sizes}
\* A single-band image: getdata() yields numbers, not triples.
GreyImage == [w |-> 1, h |-> 1, readable |-> TRUE, px |-> <<(<<128>>)>>]
\* A file Image.open cannot read.
NoImage == [w |-> 0, h |-> 0, readable |-> FALSE, px |-> <<>>]
Images == RGBImages \cup {GreyImage, NoImage}

Fractions == {<<-1, 10>>, <<0, 1>>, <<1, 4>>, <<1, 2>>, <<999, 1000>>, <<1, 1>>}

OldText == <<"o", "l", "d">>
SinkContents == {None, Some(OldText)}

----------------------------------------------------------------------------
(* The constructor *)

RECURSIVE Filter(_, _)
Filter(s, Keep) ==
    IF s = <<>> THEN <<>>
    ELSE IF Head(s) \in Keep THEN <<Head(s)>> \o Filter(Tail(s), Keep)
    ELSE Filter(Tail(s), Keep)

\* line 26: f.read().replace('\n', '')
RemoveNewlines(s) == Filter(s, Alphabet \ {"\n"})

\* line 30: the characters the negated class [^\[^\]^<^>^\.^,^\+^-] does not
\* match, which re.sub therefore leaves in place.
Retained == {"[", "^", "]", "<", ">", ".", ",", "+", "-"}

StripComments(s) == Filter(s, Retained)

\* lines 22-30, for a string argument or the content of a readable file
Construct(text, strip) == IF strip THEN StripComments(text) ELSE text

----------------------------------------------------------------------------
(* format: the pure parts *)

\* the test of line 45 with <= 0 for < 0
RejectedWithZero(ws) == ws[1] >= ws[2] \/ ws[1] <= 0

\* line 45: ws_fraction >= 1 or ws_fraction < 0
Rejected(ws) == ws[1] >= ws[2] \/ ws[1] < 0

\* line 49: int(n // (1 - ws_fraction)), for ws_fraction = p/q in [0, 1)
NScaled(len, ws) == (len * ws[2]) \div (ws[2] - ws[1])

\* lines 51, 53: ceil((n_scaled * W / float(H)) ** 0.5): the least w whose
\* square is at least n_scaled * W / H
CeilWidth(ns, W, H) ==
    CHOOSE w \in 0..(ns * W) :
        /\ w * w * H >= ns * W
        /\ \A v \in 0..(w - 1) : v * v * H < ns * W

\* line 52 dividing by the width already rounded up by line 53
CeilHeightOfRounded(ns, W, H) ==
    (ns + CeilWidth(ns, W, H) - 1) \div CeilWidth(ns, W, H)

\* lines 52, 54: ceil(n_scaled / width) with the width of line 51, which is
\* the square root itself, not yet rounded: the least h with
\* h * sqrt(n_scaled * W / H) >= n_scaled.  Line 52 divides by zero when the
\* root is 0, which the caller of this operator excludes.
CeilHeight(ns, W, H) ==
    CHOOSE h \in 0..(ns * H) :
        /\ h * h * (ns * W) >= ns * ns * H
        /\ \A v \in 0..(h - 1) : v * v * (ns * W) < ns * ns * H

\* line 55: img.resize((width, height)), the image library's default
\* nearest-neighbour resampling; pixels in row-major order as getdata() gives
Resize(img, wd, ht) ==
    [i \in 1..(wd * ht) |->
        LET cx == (i - 1) % wd
            cy == (i - 1) \div wd
        IN  img.px[((cy * img.h) \div ht) * img.w + ((cx * img.w) \div wd) + 1]]

\* line 57: (0.2126*R + 0.7152*G + 0.0722*B) / 255, times 10000 * 255.  On
\* the pixels of Palette the program's floating point value is this one.
Luminance(px) == 2126 * px[1] + 7152 * px[2] + 722 * px[3]

\* line 67: the 0.5 of the threshold test, times 10000 * 255
HalfLum == 1275000

\* the test of line 67 with <= for <
QualifiesAtHalf(inv, lum) ==
    LET sign == IF inv THEN -1 ELSE 1
    IN  sign * lum <= sign * HalfLum

\* lines 59-62, 67: inv*Y[idx] < inv*0.5
Qualifies(inv, lum) ==
    LET sign == IF inv THEN -1 ELSE 1
    IN  sign * lum < sign * HalfLum

\* line 68 reading the first token whatever the cursor
TokenAtStart(s, cur) == s[1]

\* line 68: self.bf_string[c]
TokenAt(s, cur) == s[cur + 1]

\* line 74 starting the leftover on a line of its own
LeftoverOnNewLine(s, cur) == <<"\n">> \o SubSeq(s, cur + 1, Len(s))

\* line 74: self.bf_string[c:]
Leftover(s, cur) == SubSeq(s, cur + 1, Len(s))

----------------------------------------------------------------------------
(* The state after construction *)

NoLocals ==
    /\ n = 0 /\ width = 0 /\ height = 0 /\ Y = <<>> /\ output_str = <<>>
    /\ c = 0 /\ x = 0 /\ y = 0 /\ mask = <<>>

NoCall ==
    /\ image_file = NoImage /\ invert = FALSE /\ ws_fraction = <<0, 1>>
    /\ sink \in SinkContents /\ result = None /\ kept = None
    /\ NoLocals

\* lines 22-23, 29-30: bf_string is given (bf_file is then not looked at)
InitFromString ==
    \E text \in Texts, strip \in BOOLEAN :
        /\ raw = text /\ strip_comments = strip
        /\ bf_string = Construct(text, strip)
        /\ pc = "idle" /\ err = ""

\* lines 24-26, 29-30: bf_file names a readable file
InitFromFile ==
    \E content \in Texts, strip \in BOOLEAN :
        /\ raw = RemoveNewlines(content) /\ strip_comments = strip
        /\ bf_string = Construct(RemoveNewlines(content), strip)
        /\ pc = "idle" /\ err = ""

\* line 25 raising (no such file) and line 28: no object is constructed
InitRaised ==
    /\ raw = <<>> /\ strip_comments \in BOOLEAN /\ bf_string = <<>>
    /\ pc = "unbuilt" /\ err \in {"IOError", "ValueError"}

Init == (InitFromString \/ InitFromFile \/ InitRaised) /\ NoCall

----------------------------------------------------------------------------
(* format *)

\* lines 32, 45-46: a call on the constructed object
CallWith(Imgs) ==
    /\ pc = "idle"
    /\ \E img \in Imgs, inv \in BOOLEAN, ws \in Fractions :
        /\ image_file' = img /\ invert' = inv /\ ws_fraction' = ws
        /\ IF Rejected(ws)
           THEN pc' = "raised" /\ err' = "ValueError"
           ELSE pc' = "open" /\ err' = ""
    /\ UNCHANGED <<raw, strip_comments, bf_string, sink, locals, result, kept>>

Call == CallWith(Images)

\* an exception leaving format after output_file was opened for writing
RaiseTruncating(e) ==
    /\ pc' = "raised" /\ err' = e
    /\ sink' = Some(<<>>)
    /\ UNCHANGED <<raw, strip_comments, bf_string, params, locals, result, kept>>

\* an exception leaving format
Raise(e) ==
    /\ pc' = "raised" /\ err' = e
    /\ UNCHANGED <<raw, strip_comments, bf_string, params, sink, locals,
                   result, kept>>

\* line 47: Image.open raises
OpenFails ==
    /\ pc = "open"
    /\ ~image_file.readable
    /\ Raise("IOError")

\* lines 47-52: line 52 divides by the width 0.0 of an empty stream
SizingFails ==
    /\ pc = "open"
    /\ image_file.readable
    /\ NScaled(Len(bf_string), ws_fraction) = 0
    /\ Raise("ZeroDivisionError")

\* lines 47-57: line 57 subscripts the pixels of a single-band image
LuminanceFails ==
    /\ pc = "open"
    /\ image_file.readable
    /\ NScaled(Len(bf_string), ws_fraction) \in 1..MaxCells
    /\ \E i \in 1..Len(image_file.px) : Len(image_file.px[i]) < 3
    /\ Raise("TypeError")

\* lines 47-63
Prepare ==
    /\ pc = "open"
    /\ image_file.readable
    /\ NScaled(Len(bf_string), ws_fraction) \in 1..MaxCells
    /\ \A i \in 1..Len(image_file.px) : Len(image_file.px[i]) >= 3
    /\ LET ns == NScaled(Len(bf_string), ws_fraction)
           wd == CeilWidth(ns, image_file.w, image_file.h)
           ht == CeilHeight(ns, image_file.w, image_file.h)
           img == Resize(image_file, wd, ht)
       IN  /\ n' = Len(bf_string)
           /\ width' = wd /\ height' = ht
           /\ Y' = [i \in 1..(wd * ht) |-> Luminance(img[i])]
    /\ output_str' = <<>> /\ mask' = <<>>
    /\ c' = 0 /\ x' = 0 /\ y' = 0
    /\ pc' = "scan"
    /\ UNCHANGED <<raw, strip_comments, bf_string, err, params, sink, result, kept>>

\* lines 65-71: one cell
ScanCell ==
    /\ pc = "scan" /\ y < height /\ x < width
    /\ LET idx == y * width + x
       IN  IF c < n /\ Qualifies(invert, Y[idx + 1])
           THEN /\ output_str' = Append(output_str, TokenAt(bf_string, c))
                /\ mask' = Append(mask, TRUE)
                /\ c' = c + 1
           ELSE /\ output_str' = Append(output_str, " ")
                /\ mask' = Append(mask, FALSE)
                /\ c' = c
    /\ x' = x + 1
    /\ UNCHANGED <<raw, strip_comments, bf_string, pc, err, params, sink,
                   n, width, height, Y, y, result, kept>>

\* lines 64, 72: the end of a row
EndRow ==
    /\ pc = "scan" /\ y < height /\ x = width
    /\ output_str' = Append(output_str, "\n")
    /\ mask' = Append(mask, FALSE)
    /\ y' = y + 1 /\ x' = 0
    /\ UNCHANGED <<raw, strip_comments, bf_string, pc, err, params, sink,
                   n, width, height, Y, c, result, kept>>

\* lines 73-75: the leftover is appended, then opening output_file raises
WriteFails ==
    /\ pc = "scan" /\ y = height
    /\ output_str' = (IF c < n THEN output_str \o Leftover(bf_string, c) ELSE output_str)
    /\ pc' = "raised" /\ err' = "IOError"
    /\ UNCHANGED <<raw, strip_comments, bf_string, params, sink,
                   n, width, height, Y, c, x, y, mask, result, kept>>

\* lines 73-77 with the tokens placed taken off self.bf_string
FinishConsuming ==
    /\ pc = "scan" /\ y = height
    /\ LET out == IF c < n THEN output_str \o Leftover(bf_string, c) ELSE output_str
       IN  /\ output_str' = out
           /\ sink' = Some(out)
           /\ result' = Some(out)
    /\ bf_string' = Leftover(bf_string, c)
    /\ pc' = "returned"
    /\ UNCHANGED <<raw, strip_comments, err, params,
                   n, width, height, Y, c, x, y, mask, kept>>

\* lines 73-77
Finish ==
    /\ pc = "scan" /\ y = height
    /\ LET out == IF c < n THEN output_str \o Leftover(bf_string, c) ELSE output_str
       IN  /\ output_str' = out
           /\ sink' = Some(out)
           /\ result' = Some(out)
    /\ pc' = "returned"
    /\ UNCHANGED <<raw, strip_comments, bf_string, err, params,
                   n, width, height, Y, c, x, y, mask, kept>>

\* The caller has the result or the exception and the call's frame is gone.
\* The next call may name another image and another output file, which holds
\* nothing or an old text.  A caller that keeps results (Keep has TRUE) may
\* keep the arguments and the result of the call that has returned.
BackWith(Keep) ==
    /\ pc \in {"returned", "raised"}
    /\ \E keep \in Keep :
        kept' = IF keep /\ pc = "returned"
                THEN Some(<<image_file, invert, ws_fraction, result[1]>>)
                ELSE kept
    /\ pc' = "idle" /\ err' = ""
    /\ image_file' = NoImage /\ invert' = FALSE /\ ws_fraction' = <<0, 1>>
    /\ sink' \in SinkContents /\ result' = None
    /\ n' = 0 /\ width' = 0 /\ height' = 0 /\ Y' = <<>> /\ output_str' = <<>>
    /\ c' = 0 /\ x' = 0 /\ y' = 0 /\ mask' = <<>>
    /\ UNCHANGED <<raw, strip_comments, bf_string>>

Back == BackWith({FALSE})

Next ==
    \/ Call
    \/ OpenFails
    \/ SizingFails
    \/ LuminanceFails
    \/ Prepare
    \/ ScanCell
    \/ EndRow
    \/ WriteFails
    \/ Finish
    \/ Back

Spec == Init /\ [][Next]_vars

----------------------------------------------------------------------------
(* Repeated calls by a caller that keeps results, on fewer inputs *)

RepeatTexts == SeqsUpTo({"+", "^"}, MaxRepeatLen)
RepeatImages ==
    {img \in Images : img.w * img.h <= 1}
        \cup {[w |-> 2, h |-> 1, readable |-> TRUE, px |-> <<Mid, Black>>]}

InitRepeat ==
    /\ \E text \in RepeatTexts :
        /\ raw = text /\ strip_comments = FALSE
        /\ bf_string = Construct(text, FALSE)
    /\ pc = "idle" /\ err = ""
    /\ NoCall

CallAgain == CallWith(RepeatImages)
BackKeeping == BackWith(BOOLEAN)

NextRepeat ==
    \/ CallAgain
    \/ OpenFails
    \/ SizingFails
    \/ LuminanceFails
    \/ Prepare
    \/ ScanCell
    \/ EndRow
    \/ WriteFails
    \/ Finish
    \/ BackKeeping

SpecRepeat == InitRepeat /\ [][NextRepeat]_vars

----------------------------------------------------------------------------
(* What the claims speak of *)

\* the characters of str that line 68 wrote, in order
RECURSIVE Pick(_, _, _)
Pick(str, m, k) ==
    IF k = 0 THEN <<>>
    ELSE Pick(str, m, k - 1) \o (IF m[k] THEN <<str[k]>> ELSE <<>>)

Emitted == Pick(output_str, mask, Len(mask))

\* the cells the scan has been through, numbered from 0 in row-major order
Visited == y * width + x

\* cell i's place in output_str: one line break after each full row before it
PlaceOf(i) == i + (i \div width) + 1

\* cell i is dark (invert false) or light (invert true)
Dark(i) == \/ ~invert /\ Y[i + 1] < HalfLum
           \/ invert /\ Y[i + 1] > HalfLum

\* how many of the cells 0..i qualify
Rank(i) == Cardinality({j \in 0..i : Dark(j)})

\* the length of the raster part of the output
RasterLen == height * (width + 1)

InCall == pc \in {"scan", "returned"}

----------------------------------------------------------------------------
(* C1 *)

\* C1: token conservation.  At every point of the scan the characters the
\* scan has written as tokens are, in order, the first c characters of the
\* token stream, c being the cursor; and in the returned string the
\* characters written as tokens followed by what follows the raster are
\* exactly the token stream.
C1_TokenConservation ==
    /\ Emitted = SubSeq(bf_string, 1, c)
    /\ pc = "returned" =>
          Emitted \o SubSeq(result[1], Len(mask) + 1, Len(result[1])) = bf_string

\* a call has returned a string with two differing tokens in the raster
\* and a token left over
C1_Witness ==
    /\ pc = "returned" /\ c >= 2 /\ c < n
    /\ bf_string[1] # bf_string[2]

----------------------------------------------------------------------------
(* C2 *)

\* C2: raster shape.  The returned string begins with exactly `height` lines
\* of exactly `width` characters each, every one ended by a line break: up
\* to the end of the raster the line breaks are at the multiples of
\* width + 1 and nowhere else; what follows the raster is the leftover.
C2_RasterShape ==
    pc = "returned" =>
        /\ Len(result[1]) >= RasterLen
        /\ \A k \in 1..RasterLen :
              (result[1][k] = "\n") <=> (k % (width + 1) = 0)
        /\ SubSeq(result[1], RasterLen + 1, Len(result[1])) = SubSeq(bf_string, c + 1, n)

----------------------------------------------------------------------------
(* C3 *)

\* p/q lies in [0, 1)
InUnitInterval(ws) == 0 <= ws[1] /\ ws[1] < ws[2]

----------------------------------------------------------------------------
(* C4 *)

\* a step of a call
SinkStep ==
    pc \in {"idle", "open", "scan"} =>
        /\ pc' = "raised" => sink' = sink
        /\ pc' = "returned" => sink' = result' /\ result' = Some(output_str')
        /\ sink' # sink => pc = "scan" /\ y = height /\ pc' = "returned"

\* C4: output sink discipline.  In a step of a call the sink changes only in
\* the call's last step, the one that returns, and it then holds exactly the
\* string returned, which is the whole output; a step that raises leaves the
\* sink as it was.
C4_SinkDiscipline == [][SinkStep]_vars

\* a call has raised while sizing the raster, the sink holding an old text
C4_Witness ==
    pc = "raised" /\ err = "ZeroDivisionError" /\ sink = Some(OldText)

----------------------------------------------------------------------------
(* C5 *)

EightCommands == {"[", "]", "<", ">", ".", ",", "+", "-"}

\* C5: comment stripping.  Constructed with strip_comments set, the token
\* stream holds only characters of the eight [ ] < > . , + - : it is the text
\* given with every other character removed, the rest in their order.
C5_CommentStripping ==
    (pc # "unbuilt" /\ strip_comments) =>
        /\ \A i \in 1..Len(bf_string) : bf_string[i] \in EightCommands
        /\ bf_string = Filter(raw, EightCommands)

----------------------------------------------------------------------------
(* C6 *)

\* C6: empty token stream.  A call on an empty token stream with a fraction
\* in [0, 1) and an RGB image raises nothing while sizing and scanning, and
\* what it returns is a raster of whitespace only, with no suffix.
C6_EmptyStream ==
    (Len(bf_string) = 0 /\ InUnitInterval(ws_fraction) /\ image_file \in RGBImages) =>
        /\ pc = "raised" => err = "IOError"
        /\ pc = "returned" =>
              /\ Len(result[1]) = RasterLen
              /\ \A k \in 1..Len(result[1]) : result[1][k] \in {" ", "\n"}

----------------------------------------------------------------------------
(* C7 *)

RepeatStep ==
    /\ bf_string' = bf_string
    /\ (pc' = "returned" /\ kept' # None
          /\ kept'[1][1] = image_file' /\ kept'[1][2] = invert'
          /\ kept'[1][3] = ws_fraction')
       => result' = Some(kept'[1][4])

\* C7: repeated calls.  No step of any call, returning or raising, changes
\* bf_string; and a call that returns with the image, invert and ws_fraction
\* of an earlier call whose result the caller kept returns that same string.
C7_RepeatedCalls == [][RepeatStep]_vars

\* a call has returned whose arguments are those of an earlier call, kept;
\* tokens were placed and tokens were left over
C7_Witness ==
    /\ pc = "returned" /\ kept # None
    /\ kept[1][1] = image_file /\ kept[1][2] = invert /\ kept[1][3] = ws_fraction
    /\ c >= 1 /\ c < n

----------------------------------------------------------------------------
(* C8 *)

\* ns = floor(n / (1 - p/q))
IsNScaled(ns) ==
    LET p == ws_fraction[1]
        q == ws_fraction[2]
    IN  ns * (q - p) <= n * q /\ n * q < (ns + 1) * (q - p)

\* width = ceil(sqrt(ns * origW / origH))
IsCeilWidth(ns) ==
    /\ width * width * image_file.h >= ns * image_file.w
    /\ (width - 1) * (width - 1) * image_file.h < ns * image_file.w

\* C8 as stated: width = ceil(sqrt(n_scaled * origW / origH)) and
\* height = ceil(n_scaled / width) with that rounded-up width, for
\* n_scaled = floor(n / (1 - ws_fraction)).
C8_AsStated ==
    InCall =>
        \E ns \in 1..MaxCells :
            /\ IsNScaled(ns)
            /\ IsCeilWidth(ns)
            /\ height * width >= ns /\ (height - 1) * width < ns

\* C8 amended: width = ceil(sqrt(n_scaled * origW / origH)) and
\* height = ceil(n_scaled / w) for w = sqrt(n_scaled * origW / origH), the
\* width before it is rounded up: height is the least h with
\* h * h * origW >= n_scaled * origH.
C8_RasterSizing ==
    InCall =>
        \E ns \in 1..MaxCells :
            /\ IsNScaled(ns)
            /\ IsCeilWidth(ns)
            /\ height * height * image_file.w >= ns * image_file.h
            /\ (height - 1) * (height - 1) * image_file.w < ns * image_file.h

\* a raster is sized whose height is more than ceil(n_scaled / width) for the
\* rounded-up width
C8_Witness ==
    /\ pc = "scan" /\ n >= 1
    /\ (height - 1) * width >= NScaled(n, ws_fraction)

----------------------------------------------------------------------------
(* C9 *)

\* C9: raster-scan assignment.  The cells are gone through in row-major
\* order; a cell receives a token exactly when it qualifies (luminance < 0.5,
\* or > 0.5 when inverted) and tokens are left, and it is then the next
\* token; any other cell receives one space.  So the tokens are in the first
\* min(n, q) qualifying cells, and a cell of luminance 0.5 holds none.
C9_RasterScan ==
    pc \in {"scan", "returned", "raised"} =>
        /\ Len(output_str) >= Visited + y /\ Len(mask) = Visited + y
        /\ \A i \in 0..(Visited - 1) :
              IF Dark(i) /\ Rank(i) <= n
              THEN mask[PlaceOf(i)] /\ output_str[PlaceOf(i)] = bf_string[Rank(i)]
              ELSE ~mask[PlaceOf(i)] /\ output_str[PlaceOf(i)] = " "
        /\ \A i \in 0..(Visited - 1) : Y[i + 1] = HalfLum => ~mask[PlaceOf(i)]
        /\ c = (IF Rank(Visited - 1) < n THEN Rank(Visited - 1) ELSE n)

\* a scan has ended that went through a cell of luminance 0.5 and through
\* qualifying cells, with tokens left over
C9_Witness ==
    /\ pc = "returned" /\ c >= 1 /\ c < n
    /\ \E i \in 1..Len(Y) : Y[i] = HalfLum

----------------------------------------------------------------------------
(* C10 *)

\* C10: overflow suffix.  With q qualifying cells, the returned string is the
\* whole raster, every row ended by a line break, and then, when q < n, the
\* last n - q tokens in order and nothing else; when q >= n it ends with the
\* last row's line break.
C10_OverflowSuffix ==
    pc = "returned" =>
        LET q == Rank(width * height - 1)
            out == result[1]
        IN  /\ Len(out) >= RasterLen
            /\ \A r \in 1..height : out[r * (width + 1)] = "\n"
            /\ IF q < n
               THEN /\ Len(out) = RasterLen + (n - q)
                    /\ \A k \in 1..(n - q) : out[RasterLen + k] = bf_string[q + k]
               ELSE Len(out) = RasterLen

\* a call has returned a raster with no qualifying cell and a suffix of
\* three tokens
C10_Witness ==
    /\ pc = "returned" /\ Rank(width * height - 1) = 0 /\ n = 3
    /\ bf_string[1] # bf_string[2]

====
